---- MODULE Spec2Model ----
(***************************************************************************)
(* Beatbox (src/index.ts): one instance, its storage file and the temp and *)
(* backup siblings, and the wrapped calls issued on it.  Every await of    *)
(* the source is a point where other calls of the instance may run; every  *)
(* file operation takes effect in a step of its own.                       *)
(***************************************************************************)
EXTENDS Integers, Sequences, FiniteSets, TLC

\* Number of wrapped calls issued on the instance.
MaxCalls == 2
\* Number of file operations the environment lets fail (EIO, EACCES, ...).
MaxFaults == 1

\* enum Mode
BYPASS == "BYPASS"
RECORD == "RECORD"
PLAYBACK == "PLAYBACK"
Modes == {BYPASS, RECORD, PLAYBACK}
NoMode == "none"

(***************************************************************************)
(* Values a wrapped function can return.                                   *)
(***************************************************************************)
Num(n) == [t |-> "num", v |-> n]
\* new Set([n])
SetOf(n) == [t |-> "set", v |-> n]
\* new Date(n)
DateOf(n) == [t |-> "date", v |-> n]
\* a string (an ISO date text carries the date it was printed from)
Str(n) == [t |-> "str", v |-> n]
\* new Map([[n, n]]), new RegExp(n), new Error(n)
MapOf(n) == [t |-> "map", v |-> n]
RegExpOf(n) == [t |-> "regexp", v |-> n]
ErrorOf(n) == [t |-> "error", v |-> n]
\* a plain object that has a __type key of its own: { __type: kind, value: n, ... }
Tagged(kind, n) == [t |-> kind, v |-> n]
\* const obj = {...}; obj.self = obj
Circular == [t |-> "circ", v |-> 0]
Undefined == [t |-> "undef", v |-> 0]

\* What the original function does when invoked: returns/resolves or throws/rejects.
Returns(val) == [ok |-> TRUE, val |-> val]
Throws == [ok |-> FALSE, val |-> Undefined]
FnOutcomes == {Returns(Num(5)), Returns(Circular), Throws}

(***************************************************************************)
(* Arguments.  An argument is a number, an object or an array; objects and *)
(* arrays have an identity and hold their properties in insertion order.   *)
(***************************************************************************)
Number(n) == [t |-> "number", id |-> 0, v |-> <<<<"", n>>>>]
Obj(id, props) == [t |-> "object", id |-> id, v |-> props]
Arr(id, elems) == [t |-> "array", id |-> id, v |-> [i \in 1..Len(elems) |-> <<"", elems[i]>>]]
NumOf(a) == a.v[1][2]

\* Argument lists of the calls.
ArgLists == {<<Number(2), Number(3)>>, <<Number(4), Number(5)>>}

(***************************************************************************)
(* Codec: JSON.stringify with safeJsonReplacer, JSON.parse with            *)
(* safeJsonReviver.  A JSON text is a sequence of tokens.                  *)
(***************************************************************************)
NoJson == [t |-> "", v |-> 0]
NoHash == <<"", <<>>>>
Tok(k, h, j) == [k |-> k, h |-> h, j |-> j]
LBrace == Tok("{", NoHash, NoJson)
RBrace == Tok("}", NoHash, NoJson)
Junk == Tok("junk", NoHash, NoJson)

\* JSON.stringify calls value.toJSON(key) before the replacer: a Date arrives at
\* the replacer as its ISO string.
ToJSON(val) == IF val.t = "date" THEN Str(val.v) ELSE val

\* `const seen = new WeakSet()` is made in every call of the replacer: it holds no
\* object when it is tested.
Seen == {}

\* The replacer: envelopes for the special kinds, the marker for an object that is
\* in seen, else the value.
safeJsonReplacer(val) ==
  CASE val.t = "set" -> Tagged("obj:Set", val.v)
    [] val.t = "map" -> Tagged("obj:Map", val.v)
    [] val.t = "date" -> Tagged("obj:Date", val.v)
    [] val.t = "regexp" -> Tagged("obj:RegExp", val.v)
    [] val.t = "error" -> Tagged("obj:Error", val.v)
    [] val.t = "circ" /\ val \in Seen -> [t |-> "str:[Circular Reference]", v |-> 0]
    [] OTHER -> val

\* The JSON node JSON.stringify writes for a value.
JsonNode(val) == safeJsonReplacer(ToJSON(val))

\* JSON.stringify throws on an object it is already inside of (the cyclic edge, when
\* the replacer handed the object back) and gives no text for undefined.
Stringifiable(val) == JsonNode(val).t \notin {"circ", "undef"}

safeJsonReviver(j) ==
  CASE j.t = "obj:Set" -> SetOf(j.v)
    [] j.t = "obj:Map" -> MapOf(j.v)
    [] j.t = "obj:Date" -> DateOf(j.v)
    [] j.t = "obj:RegExp" -> RegExpOf(j.v)
    [] j.t = "obj:Error" -> ErrorOf(j.v)
    [] OTHER -> j

\* The in-memory mapping is an object: entries in insertion order.
Entry(h, val) == [h |-> h, val |-> val]
Keys(st) == {st[i].h : i \in 1..Len(st)}
Has(st, h) == h \in Keys(st)
Get(st, h) == st[CHOOSE i \in 1..Len(st) : st[i].h = h].val

\* Faulty variant of StorageSet: a store never replaces, it adds another entry.
StorageSetAppend(st, h, val) == Append(st, Entry(h, val))

\* storage[hash] = result
StorageSet(st, h, val) ==
  IF Has(st, h)
    THEN [i \in 1..Len(st) |-> IF st[i].h = h THEN Entry(h, val) ELSE st[i]]
    ELSE Append(st, Entry(h, val))

StringifyStorage(st) ==
  <<LBrace>> \o [i \in 1..Len(st) |-> Tok("e", st[i].h, JsonNode(st[i].val))]
             \o <<RBrace>>

WellFormed(text) ==
  /\ Len(text) >= 2
  /\ text[1] = LBrace
  /\ text[Len(text)] = RBrace
  /\ \A i \in 2..(Len(text) - 1) : text[i].k = "e"

\* JSON.parse(data, safeJsonReviver): the mapping, or a SyntaxError.
JsonParse(text) ==
  IF WellFormed(text)
    THEN [ok |-> TRUE,
          obj |-> [i \in 1..(Len(text) - 2) |->
                     Entry(text[i + 1].h, safeJsonReviver(text[i + 1].j))]]
    ELSE [ok |-> FALSE, obj |-> <<>>]

\* Faulty variant of trySerialize: the failure of JSON.stringify is not caught as one.
trySerializeAlways(val) == TRUE

\* trySerialize of a function result: stringify, then parse back.
trySerialize(val) == Stringifiable(val)

\* trySerialize(this.storage)
trySerializeStorage(st) ==
  IF \A i \in 1..Len(st) : Stringifiable(st[i].val)
    THEN [success |-> TRUE, data |-> StringifyStorage(st)]
    ELSE [success |-> FALSE, data |-> <<>>]

\* Variant of CanonValue that tells objects apart by identity.
CanonValueByIdentity(a) == a

\* The JSON text of one argument: its kind and its properties in insertion order;
\* the identity of the object is not part of it.
CanonValue(a) == [t |-> a.t, v |-> a.v]

\* JSON.stringify(args, this.safeJsonReplacer)
ArgsJson(args) == [i \in 1..Len(args) |-> CanonValue(args[i])]

\* crypto.createHash('md5').update(argsStr).digest('hex'), taken to be injective.
Md5(text) == <<"md5", text>>

generateHash(args) == Md5(ArgsJson(args))

\* JSON.stringify(args, null, 2) in the not-found message.
ArgText(args) == ArgsJson(args)

(***************************************************************************)
(* File system: inodes hold the texts; the storage path and its .tmp       *)
(* sibling name an inode (0: no such file); every corruption backup has a  *)
(* path of its own (.backup.<Date.now()>).  A descriptor opened on a path  *)
(* stays on its inode when the path is renamed.                            *)
(***************************************************************************)
Linked(ino, f, t, b) == ino # 0 /\ (ino = f \/ ino = t \/ ino \in b)

\* write(fd, data) at offset 0 of a file that may already hold text.
Overlay(data, old) ==
  IF Len(old) > Len(data) THEN data \o SubSeq(old, Len(data) + 1, Len(old)) ELSE data

\* Errors a wrapped call can fail with.
Val(val) == [k |-> "val", x |-> val]
Err(name, v) == [k |-> "err", x |-> [t |-> name, v |-> v]]
NoRet == [k |-> "none", x |-> Undefined]
FnError == Err("FnError", <<>>)
NotFound(args) == Err("NotFound", ArgText(args))
LoadIOError == Err("LoadIO", <<>>)
RenameError == Err("RenameIO", <<>>)

\* What the caller of the original function would get from it.
Outcome(out) == IF out.ok THEN Val(out.val) ELSE FnError

\* Faulty variant of Lookup: the entry is returned without the `in` test.
LookupUnguarded(st, args) ==
  IF Has(st, generateHash(args)) THEN Val(Get(st, generateHash(args))) ELSE Val(Undefined)

\* PLAYBACK arm: hash in this.storage ? this.storage[hash] : throw.
Lookup(st, args) ==
  IF Has(st, generateHash(args)) THEN Val(Get(st, generateHash(args))) ELSE NotFound(args)

\* Faulty variant of ArmInvokes: fn is called ahead of the switch.
ArmInvokesAny(m) == m \in Modes

\* The arms of the switch that call fn.
ArmInvokes(m) == m \in {BYPASS, RECORD}

\* Faulty variant of RecordContinues: the failure of fn is caught and the arm goes on.
RecordContinuesAlways(out) == TRUE

\* RECORD arm: the code after fn runs only when fn did not fail.
RecordContinues(out) == out.ok

\* The catch of loadStorage (and of the synchronous PLAYBACK load), by read result.
LoadCatch(buf) ==
  CASE buf.r = "ENOENT" -> "empty"
    [] buf.r = "data" /\ JsonParse(buf.data).ok -> "parsed"
    [] buf.r = "data" /\ ~JsonParse(buf.data).ok -> "backup"
    [] OTHER -> "other"

NoBuf == [r |-> "", data |-> <<>>]
ReadError == [r |-> "EIO", data |-> <<>>]

VARIABLES
  mode,         \* this.mode
  storage,      \* this.storage
  initialized,  \* this.initialized
  inodes,       \* texts of the files, by inode
  fileIno,      \* inode at this.storageFile, 0 when there is no file
  tmpIno,       \* inode at `${this.storageFile}.tmp`
  backups,      \* inodes at the backup paths
  calls,        \* the wrapped calls issued so far, each with its position
  faults,       \* file operations that failed so far
  budget,       \* calls the program has yet to issue
  init0,        \* the text the storage file held at construction (history)
  paths,        \* two instances side by side: the storageFile of each
  boxes,        \* ... the fields of each and the position of its call
  names,        \* ... the directory: inode at each path that exists
  texts         \* ... the texts of the files, by inode

\* The state of the sessions that run two instances.
twoVars == <<paths, boxes, names, texts>>

\* The state of the sessions that run one instance.
oneVars == <<mode, storage, initialized, inodes, fileIno, tmpIno, backups, calls, faults,
             budget, init0>>

\* In a session of one instance there is no second one.
OneInstance == paths = <<>> /\ boxes = <<>> /\ names = <<>> /\ texts = <<>>

vars == <<mode, storage, initialized, inodes, fileIno, tmpIno, backups, calls, faults,
          budget, init0, twoVars>>

\* What only the caller and the environment change.
envVars == <<budget, init0, twoVars>>

fsVars == <<inodes, fileIno, tmpIno, backups>>

\* Texts the storage file may hold when the instance is constructed.
RecordedFile == StringifyStorage(<<Entry(generateHash(<<Number(2), Number(3)>>), Num(9))>>)
InitTexts == {RecordedFile, <<Junk>>}

Init ==
  /\ mode = BYPASS
  /\ storage = <<>>
  /\ initialized = FALSE
  /\ \/ /\ inodes = <<>>
        /\ fileIno = 0
        /\ init0 = <<>>
     \/ \E text \in InitTexts :
          /\ inodes = <<text>>
          /\ fileIno = 1
          /\ init0 = text
  /\ tmpIno = 0
  /\ backups = {}
  /\ calls = <<>>
  /\ faults = 0
  /\ budget = MaxCalls
  /\ OneInstance

NewCall(kind, args) ==
  [kind |-> kind, args |-> args, issued |-> mode, arm |-> NoMode, pc |-> "new",
   invoked |-> 0, out |-> Throws, ret |-> NoRet, buf |-> NoBuf, data |-> <<>>, fd |-> 0,
   didSet |-> FALSE, touched |-> FALSE, saved |-> "no", lk |-> "none", saw |-> "none",
   after |-> {j \in 1..Len(calls) : calls[j].pc = "done"}]

\* loadStorage up to its first await: nothing to do once initialized, else readFile.
LoadStart == IF initialized THEN "loaded" ELSE "rdPending"

\* Faulty variant of AfterLoad: the deferred task of a sync RECORD call gives up when
\* the mode is no longer RECORD.
AfterLoadIfStillRecord(c) ==
  IF c.kind = "async" THEN "loaded" ELSE IF mode = RECORD THEN "ser" ELSE "done"

\* Where a call goes on when loadStorage has resolved: the async wrapper to its
\* switch, the deferred task of a sync RECORD call to its trySerialize.
AfterLoad(c) == IF c.kind = "async" THEN "loaded" ELSE "ser"

\* loadStorage threw: the async wrapper rejects; the deferred task logs it.
LoadThrew(c, e) ==
  [c EXCEPT !.pc = "done", !.buf = NoBuf,
            !.ret = IF c.kind = "async" THEN e ELSE c.ret]

\* Faulty variant of Finish: saveStorage has no catch, the write error reaches the caller.
FinishPropagates(c, saved) ==
  [c EXCEPT !.pc = "done", !.data = <<>>, !.fd = 0, !.saved = saved,
            !.ret = IF c.kind # "async" THEN c.ret
                    ELSE IF saved = "failed" THEN Err("PersistIO", <<>>) ELSE Val(c.out.val)]

\* saveStorage returned (or was skipped): the async wrapper returns result.
Finish(c, saved) ==
  [c EXCEPT !.pc = "done", !.data = <<>>, !.fd = 0, !.saved = saved,
            !.ret = IF c.kind = "async" THEN Val(c.out.val) ELSE c.ret]

CanFault == faults < MaxFaults

\* readFile / readFileSync of this.storageFile.
ReadResult ==
  IF fileIno = 0 THEN [r |-> "ENOENT", data |-> <<>>]
  ELSE [r |-> "data", data |-> inodes[fileIno]]

\* Some call has yet to read this.mode: one still to be issued, or one of the
\* async wrapper before its switch.
ModeIsRead ==
  \/ budget > 0
  \/ \E i \in 1..Len(calls) :
       calls[i].kind = "async" /\ calls[i].pc \in {"rdPending", "rdDone", "bkPending", "loaded"}

\* setMode, as far as a later switch (this.mode) can tell.
setMode(m) ==
  /\ m # mode
  /\ ModeIsRead
  /\ mode' = m
  /\ UNCHANGED <<storage, initialized, fsVars, calls, faults, envVars>>

(***************************************************************************)
(* The async wrapper (wrap, lines 182-214).                                *)
(***************************************************************************)
\* wrapper(...args) up to `await this.loadStorage()`.
CallAsync(args) ==
  /\ budget > 0
  /\ budget' = budget - 1
  /\ calls' = Append(calls, [NewCall("async", args) EXCEPT !.pc = LoadStart])
  /\ UNCHANGED <<mode, storage, initialized, fsVars, faults, init0, twoVars>>

\* fs.readFile takes its snapshot of the storage file (or fails).
ReadFile(i) ==
  /\ calls[i].pc = "rdPending"
  /\ calls' = [calls EXCEPT ![i].pc = "rdDone", ![i].touched = TRUE,
                              ![i].buf = ReadResult, ![i].saw = LoadCatch(ReadResult)]
  /\ UNCHANGED <<mode, storage, initialized, fsVars, faults, envVars>>

\* fs.readFile fails with an error that is neither ENOENT nor a SyntaxError.
ReadFileFails(i) ==
  /\ calls[i].pc = "rdPending"
  /\ CanFault
  /\ faults' = faults + 1
  /\ calls' = [calls EXCEPT ![i].pc = "rdDone", ![i].touched = TRUE, ![i].buf = ReadError,
                              ![i].saw = LoadCatch(ReadError)]
  /\ UNCHANGED <<mode, storage, initialized, fsVars, envVars>>

\* loadStorage after `await fs.readFile`: lines 146-147 and the catch, 148-162.
LoadContinue(i) ==
  /\ calls[i].pc = "rdDone"
  /\ LET c == calls[i]
         what == LoadCatch(c.buf)
     IN CASE what = "parsed" ->
               /\ storage' = JsonParse(c.buf.data).obj
               /\ initialized' = TRUE
               /\ calls' = [calls EXCEPT ![i] = [c EXCEPT !.pc = AfterLoad(c), !.buf = NoBuf]]
          [] what = "empty" ->
               /\ storage' = <<>>
               /\ initialized' = TRUE
               /\ calls' = [calls EXCEPT ![i] = [c EXCEPT !.pc = AfterLoad(c), !.buf = NoBuf]]
          [] what = "backup" ->
               /\ calls' = [calls EXCEPT ![i] = [c EXCEPT !.pc = "bkPending", !.buf = NoBuf]]
               /\ UNCHANGED <<storage, initialized>>
          [] OTHER ->
               /\ calls' = [calls EXCEPT ![i] = LoadThrew(c, LoadIOError)]
               /\ UNCHANGED <<storage, initialized>>
  /\ UNCHANGED <<mode, fsVars, faults, envVars>>

\* `await fs.rename(this.storageFile, backup)` and lines 156-158.  The rename is
\* inside the catch: when it fails, loadStorage throws.
BackupRename(i) ==
  /\ calls[i].pc = "bkPending"
  /\ LET c == calls[i]
     IN \/ /\ fileIno # 0
           /\ backups' = backups \cup {fileIno}
           /\ fileIno' = 0
           /\ storage' = <<>>
           /\ initialized' = TRUE
           /\ calls' = [calls EXCEPT ![i] = [c EXCEPT !.pc = AfterLoad(c)]]
           /\ UNCHANGED <<faults, inodes, tmpIno>>
        \/ /\ fileIno = 0
           /\ calls' = [calls EXCEPT ![i] = LoadThrew(c, RenameError)]
           /\ UNCHANGED <<storage, initialized, fsVars, faults>>
  /\ UNCHANGED <<mode, envVars>>

BackupRenameFails(i) ==
  /\ calls[i].pc = "bkPending"
  /\ fileIno # 0
  /\ CanFault
  /\ faults' = faults + 1
  /\ calls' = [calls EXCEPT ![i] = LoadThrew(calls[i], RenameError)]
  /\ UNCHANGED <<mode, storage, initialized, fsVars, envVars>>

\* The switch of the async wrapper, BYPASS and RECORD arms: fn(...args) is called.
DispatchInvoke(i, o) ==
  /\ calls[i].pc = "loaded"
  /\ calls[i].kind = "async"
  /\ ArmInvokes(mode)
  /\ calls' = [calls EXCEPT ![i].pc = "fnRun", ![i].arm = mode,
                            ![i].invoked = calls[i].invoked + 1, ![i].out = o]
  /\ UNCHANGED <<mode, storage, initialized, fsVars, faults, envVars>>

\* The switch of the async wrapper, PLAYBACK arm (lines 202-209).
DispatchPlayback(i) ==
  /\ calls[i].pc = "loaded"
  /\ calls[i].kind = "async"
  /\ mode = PLAYBACK
  /\ calls' = [calls EXCEPT ![i].pc = "done", ![i].arm = mode,
                 ![i].lk = IF Has(storage, generateHash(calls[i].args)) THEN "hit" ELSE "miss",
                 ![i].ret = Lookup(storage, calls[i].args)]
  /\ UNCHANGED <<mode, storage, initialized, fsVars, faults, envVars>>

\* The promise fn returned settles: BYPASS returns it; RECORD awaits it and, when
\* it resolved, goes on to trySerialize(result).
FnSettle(i) ==
  /\ calls[i].pc = "fnRun"
  /\ LET c == calls[i]
     IN calls' = [calls EXCEPT ![i] =
          IF c.arm = RECORD /\ RecordContinues(c.out)
            THEN [c EXCEPT !.pc = "ser"]
            ELSE [c EXCEPT !.pc = "done", !.ret = Outcome(c.out)]]
  /\ UNCHANGED <<mode, storage, initialized, fsVars, faults, envVars>>

(***************************************************************************)
(* RECORD arm after fn: lines 192-199 (async) and 229-235 (the deferred    *)
(* task of a sync call), then saveStorage, lines 165-179.                  *)
(***************************************************************************)
\* if (success) { this.storage[hash] = result; await this.saveStorage() ... }
\* saveStorage runs up to its first await in the same step: trySerialize(this.storage).
RecordStore(i) ==
  /\ calls[i].pc = "ser"
  /\ LET c == calls[i]
         st == StorageSet(storage, generateHash(c.args), c.out.val)
         s == trySerializeStorage(st)
     IN IF trySerialize(c.out.val)
          THEN /\ storage' = st
               /\ calls' = [calls EXCEPT ![i] =
                    IF s.success
                      THEN [c EXCEPT !.pc = "wrOpen", !.data = s.data, !.didSet = TRUE,
                                     !.touched = TRUE]
                      ELSE [Finish(c, "no") EXCEPT !.didSet = TRUE, !.touched = TRUE]]
          ELSE /\ calls' = [calls EXCEPT ![i] = Finish(c, "no")]
               /\ UNCHANGED storage
  /\ UNCHANGED <<mode, initialized, fsVars, faults, envVars>>

\* fs.writeFile(tempFile, data) opens the temp path: O_WRONLY | O_CREAT | O_TRUNC.
WriteOpen(i) ==
  /\ calls[i].pc = "wrOpen"
  /\ \/ /\ tmpIno = 0
        /\ inodes' = Append(inodes, <<>>)
        /\ tmpIno' = Len(inodes) + 1
        /\ calls' = [calls EXCEPT ![i].pc = "wrData", ![i].fd = Len(inodes) + 1]
        /\ UNCHANGED faults
     \/ /\ tmpIno # 0
        /\ inodes' = [inodes EXCEPT ![tmpIno] = <<>>]
        /\ calls' = [calls EXCEPT ![i].pc = "wrData", ![i].fd = tmpIno]
        /\ UNCHANGED <<tmpIno, faults>>
  /\ UNCHANGED <<mode, storage, initialized, fileIno, backups, envVars>>

\* A file operation of saveStorage fails: caught at lines 176-178 and logged.
PersistFails(i) ==
  /\ calls[i].pc \in {"wrOpen", "wrData"} \/ (calls[i].pc = "ren" /\ tmpIno # 0)
  /\ CanFault
  /\ faults' = faults + 1
  /\ calls' = [calls EXCEPT ![i] = Finish(calls[i], "failed")]
  /\ UNCHANGED <<mode, storage, initialized, fsVars, envVars>>

\* fs.writeFile writes data through its descriptor, from offset 0, and closes.
WriteData(i) ==
  /\ calls[i].pc = "wrData"
  /\ LET c == calls[i]
     IN /\ inodes' = IF Linked(c.fd, fileIno, tmpIno, backups)
                       THEN [inodes EXCEPT ![c.fd] = Overlay(c.data, @)]
                       ELSE inodes
        /\ calls' = [calls EXCEPT ![i].pc = "ren"]
  /\ UNCHANGED <<mode, storage, initialized, fileIno, tmpIno, backups, faults, envVars>>

\* fs.rename(tempFile, this.storageFile), then saveStorage and the wrapper return.
\* Any failure is caught and logged (lines 176-178).
RenameTemp(i) ==
  /\ calls[i].pc = "ren"
  /\ LET c == calls[i]
     IN \/ /\ tmpIno # 0
           /\ fileIno' = tmpIno
           /\ tmpIno' = 0
           /\ inodes' = IF fileIno # 0 THEN [inodes EXCEPT ![fileIno] = <<>>] ELSE inodes
           /\ calls' = [calls EXCEPT ![i] = Finish(c, "ok")]
           /\ UNCHANGED faults
        \/ /\ tmpIno = 0
           /\ calls' = [calls EXCEPT ![i] = Finish(c, "failed")]
           /\ UNCHANGED <<inodes, fileIno, tmpIno, faults>>
  /\ UNCHANGED <<mode, storage, initialized, backups, envVars>>

(***************************************************************************)
(* The sync wrapper (wrap, lines 217-274): runs to its return in one step. *)
(***************************************************************************)
\* BYPASS arm (lines 221-223).
CallSyncBypass(args, o) ==
  /\ budget > 0
  /\ budget' = budget - 1
  /\ mode = BYPASS
  /\ calls' = Append(calls, [NewCall("sync", args) EXCEPT
                !.pc = "done", !.arm = mode, !.out = o,
                !.invoked = IF ArmInvokes(mode) THEN 1 ELSE 0,
                !.ret = Outcome(o)])
  /\ UNCHANGED <<mode, storage, initialized, fsVars, faults, init0, twoVars>>

\* RECORD arm (lines 224-239): fn, then loadStorage() is started and the result
\* returned; the then-callback runs later.
CallSyncRecord(args, o) ==
  /\ budget > 0
  /\ budget' = budget - 1
  /\ mode = RECORD
  /\ calls' = Append(calls, [NewCall("sync", args) EXCEPT
                !.arm = mode, !.out = o,
                !.invoked = IF ArmInvokes(mode) THEN 1 ELSE 0,
                !.ret = Outcome(o),
                !.pc = IF ~RecordContinues(o) THEN "done"
                       ELSE IF initialized THEN "ser" ELSE "rdPending"])
  /\ UNCHANGED <<mode, storage, initialized, fsVars, faults, init0, twoVars>>

\* PLAYBACK arm (lines 241-269): readFileSync and JSON.parse on every call, with a
\* catch that has no final else; then the lookup.
CallSyncPlayback(args) ==
  /\ budget > 0
  /\ budget' = budget - 1
  /\ mode = PLAYBACK
  /\ LET c == [NewCall("sync", args) EXCEPT !.pc = "done", !.arm = mode, !.touched = TRUE,
                                              !.invoked = IF ArmInvokes(mode) THEN 1 ELSE 0]
         buf == ReadResult
         what == LoadCatch(buf)
         looked(st) == [c EXCEPT !.ret = Lookup(st, args), !.saw = what,
                          !.lk = IF Has(st, generateHash(args)) THEN "hit" ELSE "miss"]
     IN \/ /\ what = "parsed"
           /\ storage' = JsonParse(buf.data).obj
           /\ initialized' = TRUE
           /\ calls' = Append(calls, looked(storage'))
           /\ UNCHANGED <<fsVars, faults>>
        \/ /\ what = "empty"
           /\ storage' = <<>>
           /\ initialized' = TRUE
           /\ calls' = Append(calls, looked(storage'))
           /\ UNCHANGED <<fsVars, faults>>
        \/ /\ what = "backup"
           /\ backups' = backups \cup {fileIno}
           /\ fileIno' = 0
           /\ storage' = <<>>
           /\ initialized' = TRUE
           /\ calls' = Append(calls, looked(storage'))
           /\ UNCHANGED <<inodes, tmpIno, faults>>
  /\ UNCHANGED <<mode, init0, twoVars>>

\* The same arm when readFileSync fails otherwise (the error is dropped: no branch
\* of the catch rethrows it) or when renameSync fails (it throws out of the catch).
CallSyncPlaybackFails(args) ==
  /\ budget > 0
  /\ budget' = budget - 1
  /\ mode = PLAYBACK
  /\ CanFault
  /\ faults' = faults + 1
  /\ LET c == [NewCall("sync", args) EXCEPT !.pc = "done", !.arm = mode, !.touched = TRUE,
                                              !.invoked = IF ArmInvokes(mode) THEN 1 ELSE 0]
     IN \/ /\ LoadCatch(ReadResult) = "backup"
           /\ calls' = Append(calls, [c EXCEPT !.ret = RenameError,
                                                !.saw = LoadCatch(ReadResult)])
        \/ /\ LoadCatch(ReadError) = "other"
           /\ calls' = Append(calls, [c EXCEPT !.ret = Lookup(storage, args),
                  !.saw = LoadCatch(ReadError),
                  !.lk = IF Has(storage, generateHash(args)) THEN "hit" ELSE "miss"])
  /\ UNCHANGED <<mode, storage, initialized, fsVars, init0, twoVars>>

Next ==
  \/ \E m \in Modes : setMode(m)
  \/ \E a \in ArgLists : CallAsync(a)
  \/ \E a \in ArgLists, o \in FnOutcomes : CallSyncBypass(a, o)
  \/ \E a \in ArgLists, o \in FnOutcomes : CallSyncRecord(a, o)
  \/ \E a \in ArgLists : CallSyncPlayback(a)
  \/ \E a \in ArgLists : CallSyncPlaybackFails(a)
  \/ \E i \in 1..Len(calls) : ReadFile(i)
  \/ \E i \in 1..Len(calls) : ReadFileFails(i)
  \/ \E i \in 1..Len(calls) : LoadContinue(i)
  \/ \E i \in 1..Len(calls) : BackupRename(i)
  \/ \E i \in 1..Len(calls) : BackupRenameFails(i)
  \/ \E i \in 1..Len(calls), o \in FnOutcomes : DispatchInvoke(i, o)
  \/ \E i \in 1..Len(calls) : DispatchPlayback(i)
  \/ \E i \in 1..Len(calls) : FnSettle(i)
  \/ \E i \in 1..Len(calls) : RecordStore(i)
  \/ \E i \in 1..Len(calls) : WriteOpen(i)
  \/ \E i \in 1..Len(calls) : WriteData(i)
  \/ \E i \in 1..Len(calls) : RenameTemp(i)
  \/ \E i \in 1..Len(calls) : PersistFails(i)

Spec == Init /\ [][Next]_vars

(***************************************************************************)
(* A record-then-replay session as the tests run it: the wrapped functions *)
(* are syncAdd and asyncAdd, the instance is new and has no storage file,  *)
(* calls are made in RECORD and then in PLAYBACK mode, no file operation   *)
(* fails.                                                                  *)
(***************************************************************************)
MaxAddCalls == 3

\* (a, b) => a + b
Add(args) == Returns(Num(NumOf(args[1]) + NumOf(args[2])))

InitAdd ==
  /\ mode = BYPASS
  /\ storage = <<>>
  /\ initialized = FALSE
  /\ inodes = <<>>
  /\ fileIno = 0
  /\ init0 = <<>>
  /\ tmpIno = 0
  /\ backups = {}
  /\ calls = <<>>
  /\ faults = 0
  /\ budget = MaxAddCalls
  /\ OneInstance

NextAdd ==
  \/ mode = BYPASS /\ setMode(RECORD)
  \/ mode = RECORD /\ setMode(PLAYBACK)
  \/ \E a \in ArgLists : mode # BYPASS /\ CallAsync(a)
  \/ \E a \in ArgLists : CallSyncRecord(a, Add(a))
  \/ \E a \in ArgLists : CallSyncPlayback(a)
  \/ \E i \in 1..Len(calls) : ReadFile(i)
  \/ \E i \in 1..Len(calls) : LoadContinue(i)
  \/ \E i \in 1..Len(calls) : DispatchInvoke(i, Add(calls[i].args))
  \/ \E i \in 1..Len(calls) : DispatchPlayback(i)
  \/ \E i \in 1..Len(calls) : FnSettle(i)
  \/ \E i \in 1..Len(calls) : RecordStore(i)
  \/ \E i \in 1..Len(calls) : WriteOpen(i)
  \/ \E i \in 1..Len(calls) : WriteData(i)
  \/ \E i \in 1..Len(calls) : RenameTemp(i)

SpecAdd == InitAdd /\ [][NextAdd]_vars

(***************************************************************************)
(* A replay session on one argument list: add(2, 3) is recorded on a new   *)
(* instance and then played back; a file operation of the persist may      *)
(* fail.                                                                   *)
(***************************************************************************)
MaxReplayCalls == 3

ReplayArgs == <<Number(2), Number(3)>>

InitReplay ==
  /\ mode = BYPASS
  /\ storage = <<>>
  /\ initialized = FALSE
  /\ inodes = <<>>
  /\ fileIno = 0
  /\ init0 = <<>>
  /\ tmpIno = 0
  /\ backups = {}
  /\ calls = <<>>
  /\ faults = 0
  /\ budget = MaxReplayCalls
  /\ OneInstance

NextReplay ==
  \/ mode = BYPASS /\ setMode(RECORD)
  \/ mode = RECORD /\ setMode(PLAYBACK)
  \/ mode # BYPASS /\ CallAsync(ReplayArgs)
  \/ CallSyncRecord(ReplayArgs, Add(ReplayArgs))
  \/ CallSyncPlayback(ReplayArgs)
  \/ \E i \in 1..Len(calls) : ReadFile(i)
  \/ \E i \in 1..Len(calls) : LoadContinue(i)
  \/ \E i \in 1..Len(calls) : DispatchInvoke(i, Add(calls[i].args))
  \/ \E i \in 1..Len(calls) : DispatchPlayback(i)
  \/ \E i \in 1..Len(calls) : FnSettle(i)
  \/ \E i \in 1..Len(calls) : RecordStore(i)
  \/ \E i \in 1..Len(calls) : WriteOpen(i)
  \/ \E i \in 1..Len(calls) : WriteData(i)
  \/ \E i \in 1..Len(calls) : RenameTemp(i)
  \/ \E i \in 1..Len(calls) : PersistFails(i)

SpecReplay == InitReplay /\ [][NextReplay]_vars

(***************************************************************************)
(* One recording and one replay on a new instance, nothing failing: with   *)
(* object, array and omitted arguments (the edge-case tests), and with     *)
(* results of every kind the codec has an envelope for.                    *)
(***************************************************************************)
MaxPairCalls == 2

\* { x: 1, y: 2 } and the same properties inserted in the other order.
XY == <<<<"x", 1>>, <<"y", 2>>>>
YX == <<<<"y", 2>>, <<"x", 1>>>>

\* wrapped({ x: 1, y: 2 }) with a new object in every call, wrapped([1, 2, 3]) with
\* a new array in every call, wrapped().
ObjArgLists ==
  {<<Obj(1, XY)>>, <<Obj(2, XY)>>, <<Obj(3, YX)>>,
   <<Arr(4, <<1, 2, 3>>)>>, <<Arr(5, <<1, 2, 3>>)>>, <<>>}

RECURSIVE SumPairs(_)
SumPairs(ps) == IF ps = <<>> THEN 0 ELSE ps[1][2] + SumPairs(Tail(ps))

\* obj.x + obj.y, arr.reduce((a, b) => a + b, 0), a ?? 0
SumFn(args) == Returns(Num(IF args = <<>> THEN 0 ELSE SumPairs(args[1].v)))

InitPair ==
  /\ mode = BYPASS
  /\ storage = <<>>
  /\ initialized = FALSE
  /\ inodes = <<>>
  /\ fileIno = 0
  /\ init0 = <<>>
  /\ tmpIno = 0
  /\ backups = {}
  /\ calls = <<>>
  /\ faults = 0
  /\ budget = MaxPairCalls
  /\ OneInstance

\* The steps of a call that are the same in every session.
CallStep(i) ==
  \/ ReadFile(i)
  \/ LoadContinue(i)
  \/ DispatchPlayback(i)
  \/ FnSettle(i)
  \/ RecordStore(i)
  \/ WriteOpen(i)
  \/ WriteData(i)
  \/ RenameTemp(i)

NextArgs ==
  \/ mode = BYPASS /\ setMode(RECORD)
  \/ mode = RECORD /\ setMode(PLAYBACK)
  \/ \E a \in ObjArgLists : mode # BYPASS /\ CallAsync(a)
  \/ \E a \in ObjArgLists : CallSyncRecord(a, SumFn(a))
  \/ \E a \in ObjArgLists : CallSyncPlayback(a)
  \/ \E i \in 1..Len(calls) : DispatchInvoke(i, SumFn(calls[i].args))
  \/ \E i \in 1..Len(calls) : CallStep(i)

SpecArgs == InitPair /\ [][NextArgs]_vars

\* Results of the kinds the codec knows, and a plain object that carries a __type.
CodecOutcomes ==
  {Returns(Num(5)), Returns(Str(1)), Returns(SetOf(1)), Returns(MapOf(1)),
   Returns(DateOf(1)), Returns(RegExpOf(1)), Returns(ErrorOf(1)),
   Returns(Tagged("obj:Set", 1))}

NextCodec ==
  \/ mode = BYPASS /\ setMode(RECORD)
  \/ mode = RECORD /\ setMode(PLAYBACK)
  \/ mode # BYPASS /\ CallAsync(ReplayArgs)
  \/ \E o \in CodecOutcomes : CallSyncRecord(ReplayArgs, o)
  \/ CallSyncPlayback(ReplayArgs)
  \/ \E i \in 1..Len(calls), o \in CodecOutcomes : DispatchInvoke(i, o)
  \/ \E i \in 1..Len(calls) : CallStep(i)

SpecCodec == InitPair /\ [][NextCodec]_vars

(***************************************************************************)
(* Two instances side by side (the test of multiple storage instances):    *)
(* each is constructed on a storage path of its own, records add of its    *)
(* own arguments through a sync-wrapped function and plays it back.  The   *)
(* two share nothing but the directory their files are in.  An instance    *)
(* makes its next call when the deferred task of its last one has ended.   *)
(***************************************************************************)
MaxBoxCalls == 2

Boxes == {1, 2}
OtherBox(b) == 3 - b

\* Variant of TempFile: one temp path for every instance.
TempFileShared(p) == <<"tmp">>

\* const tempFile = `${this.storageFile}.tmp`
TempFile(p) == p \o <<"tmp">>

\* Paths to construct an instance on.
StoragePaths == {<<"storage1">>, <<"storage2">>, <<"storage1", "tmp">>}

\* wrapped1(1, 2), wrapped2(3, 4)
BoxArgs(b) == <<Number(2 * b - 1), Number(2 * b)>>

Ino(p) == IF p \in DOMAIN names THEN names[p] ELSE 0
Bind(nm, p, ino) == [q \in (DOMAIN nm) \cup {p} |-> IF q = p THEN ino ELSE nm[q]]

NoFile == [present |-> FALSE, text |-> <<>>]
FileAt(p) == IF Ino(p) = 0 THEN NoFile ELSE [present |-> TRUE, text |-> texts[Ino(p)]]

\* readFile / readFileSync of the instance's storageFile.
BoxRead(b) ==
  IF Ino(paths[b]) = 0 THEN [r |-> "ENOENT", data |-> <<>>]
  ELSE [r |-> "data", data |-> texts[Ino(paths[b])]]

NewBox ==
  [mode |-> BYPASS, storage |-> <<>>, initialized |-> FALSE, left |-> MaxBoxCalls,
   pc |-> "idle", buf |-> NoBuf, data |-> <<>>, fd |-> 0, ret |-> NoRet, last |-> "none",
   saved |-> FALSE, conc |-> FALSE, own |-> NoFile]

InitTwo ==
  /\ mode = BYPASS
  /\ storage = <<>>
  /\ initialized = FALSE
  /\ inodes = <<>>
  /\ fileIno = 0
  /\ init0 = <<>>
  /\ tmpIno = 0
  /\ backups = {}
  /\ calls = <<>>
  /\ faults = 0
  /\ budget = 0
  /\ \E p \in StoragePaths, q \in StoragePaths : p # q /\ paths = <<p, q>>
  /\ boxes = <<NewBox, NewBox>>
  /\ names = <<>>
  /\ texts = <<>>

\* setMode on instance b.
BoxSetMode(b, m) ==
  /\ boxes[b].left > 0
  /\ boxes' = [boxes EXCEPT ![b].mode = m]
  /\ UNCHANGED <<oneVars, paths, names, texts>>

\* syncWrapper of instance b, RECORD arm: fn, loadStorage() started, result returned.
BoxCallRecord(b) ==
  /\ boxes[b].mode = RECORD
  /\ boxes[b].left > 0
  /\ boxes[b].pc = "idle"
  /\ boxes' = [boxes EXCEPT ![b].left = @ - 1, ![b].last = "record",
                            ![b].ret = Outcome(Add(BoxArgs(b))),
                            ![b].conc = @ \/ boxes[OtherBox(b)].pc # "idle",
                            ![b].pc = IF boxes[b].initialized THEN "ser" ELSE "rdPending"]
  /\ UNCHANGED <<oneVars, paths, names, texts>>

BoxReadFile(b) ==
  /\ boxes[b].pc = "rdPending"
  /\ boxes' = [boxes EXCEPT ![b].pc = "rdDone", ![b].buf = BoxRead(b)]
  /\ UNCHANGED <<oneVars, paths, names, texts>>

\* loadStorage of instance b after its readFile (lines 146-154).
BoxLoadContinue(b) ==
  /\ boxes[b].pc = "rdDone"
  /\ LET x == boxes[b]
         what == LoadCatch(x.buf)
     IN boxes' = [boxes EXCEPT ![b] =
          CASE what = "parsed" ->
                 [x EXCEPT !.storage = JsonParse(x.buf.data).obj, !.initialized = TRUE,
                           !.pc = "ser", !.buf = NoBuf]
            [] what = "empty" ->
                 [x EXCEPT !.storage = <<>>, !.initialized = TRUE, !.pc = "ser", !.buf = NoBuf]
            [] OTHER -> [x EXCEPT !.pc = "bkPending", !.buf = NoBuf]]
  /\ UNCHANGED <<oneVars, paths, names, texts>>

\* fs.rename(this.storageFile, backup) of instance b and lines 156-158; when the
\* file is gone loadStorage throws and the deferred task ends in its catch.
BoxBackupRename(b) ==
  /\ boxes[b].pc = "bkPending"
  /\ \/ /\ Ino(paths[b]) # 0
        /\ names' = Bind(names, paths[b], 0)
        /\ boxes' = [boxes EXCEPT ![b].storage = <<>>, ![b].initialized = TRUE,
                                  ![b].pc = "ser", ![b].own = NoFile]
     \/ /\ Ino(paths[b]) = 0
        /\ boxes' = [boxes EXCEPT ![b].pc = "idle"]
        /\ UNCHANGED names
  /\ UNCHANGED <<oneVars, paths, texts>>

\* this.storage[hash] = result, then saveStorage up to its writeFile.
BoxRecordStore(b) ==
  /\ boxes[b].pc = "ser"
  /\ LET st == StorageSet(boxes[b].storage, generateHash(BoxArgs(b)), Add(BoxArgs(b)).val)
     IN boxes' = [boxes EXCEPT ![b].storage = st, ![b].pc = "wrOpen",
                               ![b].data = trySerializeStorage(st).data]
  /\ UNCHANGED <<oneVars, paths, names, texts>>

\* fs.writeFile(tempFile, data) of instance b opens its temp path.
BoxWriteOpen(b) ==
  /\ boxes[b].pc = "wrOpen"
  /\ LET tp == TempFile(paths[b])
     IN \/ /\ Ino(tp) = 0
           /\ texts' = Append(texts, <<>>)
           /\ names' = Bind(names, tp, Len(texts) + 1)
           /\ boxes' = [boxes EXCEPT ![b].pc = "wrData", ![b].fd = Len(texts) + 1]
        \/ /\ Ino(tp) # 0
           /\ texts' = [texts EXCEPT ![Ino(tp)] = <<>>]
           /\ boxes' = [boxes EXCEPT ![b].pc = "wrData", ![b].fd = Ino(tp)]
           /\ UNCHANGED names
  /\ UNCHANGED <<oneVars, paths>>

BoxWriteData(b) ==
  /\ boxes[b].pc = "wrData"
  /\ texts' = [texts EXCEPT ![boxes[b].fd] = Overlay(boxes[b].data, @)]
  /\ boxes' = [boxes EXCEPT ![b].pc = "ren"]
  /\ UNCHANGED <<oneVars, paths, names>>

\* fs.rename(tempFile, this.storageFile) of instance b; a failure is logged.
BoxRenameTemp(b) ==
  /\ boxes[b].pc = "ren"
  /\ LET tp == TempFile(paths[b])
     IN \/ /\ Ino(tp) # 0
           /\ names' = Bind(Bind(names, paths[b], Ino(tp)), tp, 0)
           /\ boxes' = [boxes EXCEPT ![b].pc = "idle", ![b].data = <<>>, ![b].fd = 0,
                                     ![b].saved = TRUE,
                                     ![b].own = [present |-> TRUE, text |-> texts[Ino(tp)]]]
        \/ /\ Ino(tp) = 0
           /\ boxes' = [boxes EXCEPT ![b].pc = "idle", ![b].data = <<>>, ![b].fd = 0]
           /\ UNCHANGED names
  /\ UNCHANGED <<oneVars, paths, texts>>

\* syncWrapper of instance b, PLAYBACK arm (lines 241-269).
BoxCallPlayback(b) ==
  /\ boxes[b].mode = PLAYBACK
  /\ boxes[b].left > 0
  /\ boxes[b].pc = "idle"
  /\ LET what == LoadCatch(BoxRead(b))
         st == IF what = "parsed" THEN JsonParse(BoxRead(b).data).obj ELSE <<>>
     IN /\ boxes' = [boxes EXCEPT ![b].left = @ - 1, ![b].last = "playback",
                       ![b].storage = st, ![b].initialized = TRUE,
                       ![b].own = IF what = "backup" THEN NoFile ELSE @,
                       ![b].ret = Lookup(st, BoxArgs(b))]
        /\ names' = IF what = "backup" THEN Bind(names, paths[b], 0) ELSE names
  /\ UNCHANGED <<oneVars, paths, texts>>

NextTwo ==
  \/ \E b \in Boxes : boxes[b].mode = BYPASS /\ BoxSetMode(b, RECORD)
  \/ \E b \in Boxes : boxes[b].mode = RECORD /\ BoxSetMode(b, PLAYBACK)
  \/ \E b \in Boxes : BoxCallRecord(b)
  \/ \E b \in Boxes : BoxReadFile(b)
  \/ \E b \in Boxes : BoxLoadContinue(b)
  \/ \E b \in Boxes : BoxBackupRename(b)
  \/ \E b \in Boxes : BoxRecordStore(b)
  \/ \E b \in Boxes : BoxWriteOpen(b)
  \/ \E b \in Boxes : BoxWriteData(b)
  \/ \E b \in Boxes : BoxRenameTemp(b)
  \/ \E b \in Boxes : BoxCallPlayback(b)

SpecTwo == InitTwo /\ [][NextTwo]_vars

(***************************************************************************)
(* Two functions wrapped by one instance, add and mul, each through the    *)
(* sync and the async wrapper and called with (2, 3): a new instance       *)
(* without a storage file, calls in RECORD and then in PLAYBACK mode, no   *)
(* file operation fails.                                                   *)
(***************************************************************************)
MaxFnCalls == 3

\* (a, b) => a * b
Mul(args) == Returns(Num(NumOf(args[1]) * NumOf(args[2])))

\* What the wrapped functions return for an argument list.
FnResults(args) == {Add(args), Mul(args)}

InitFns ==
  /\ mode = BYPASS
  /\ storage = <<>>
  /\ initialized = FALSE
  /\ inodes = <<>>
  /\ fileIno = 0
  /\ init0 = <<>>
  /\ tmpIno = 0
  /\ backups = {}
  /\ calls = <<>>
  /\ faults = 0
  /\ budget = MaxFnCalls
  /\ OneInstance

NextFns ==
  \/ mode = BYPASS /\ setMode(RECORD)
  \/ mode = RECORD /\ setMode(PLAYBACK)
  \/ mode # BYPASS /\ CallAsync(ReplayArgs)
  \/ \E o \in FnResults(ReplayArgs) : CallSyncRecord(ReplayArgs, o)
  \/ CallSyncPlayback(ReplayArgs)
  \/ \E i \in 1..Len(calls) : ReadFile(i)
  \/ \E i \in 1..Len(calls) : LoadContinue(i)
  \/ \E i \in 1..Len(calls) : \E o \in FnResults(calls[i].args) : DispatchInvoke(i, o)
  \/ \E i \in 1..Len(calls) : DispatchPlayback(i)
  \/ \E i \in 1..Len(calls) : FnSettle(i)
  \/ \E i \in 1..Len(calls) : RecordStore(i)
  \/ \E i \in 1..Len(calls) : WriteOpen(i)
  \/ \E i \in 1..Len(calls) : WriteData(i)
  \/ \E i \in 1..Len(calls) : RenameTemp(i)

SpecFns == InitFns /\ [][NextFns]_vars

(***************************************************************************)
(* A session in which the mode is switched at any time, on a new instance  *)
(* without a storage file and with no file operation failing: add through  *)
(* both wrappers in any mode, the sync-wrapped function in RECORD mode     *)
(* also with the other outcomes.  The event loop runs every                *)
(* continuation that is ready (a resolved promise's callback, a completed  *)
(* file operation): each call's pending step is taken eventually.          *)
(***************************************************************************)
MaxLiveCalls == 2

\* The next step of call i, whichever it is.
LiveStep(i) ==
  IF i \in 1..Len(calls)
    THEN CallStep(i) \/ DispatchInvoke(i, Add(calls[i].args))
    ELSE FALSE

InitLive ==
  /\ mode = BYPASS
  /\ storage = <<>>
  /\ initialized = FALSE
  /\ inodes = <<>>
  /\ fileIno = 0
  /\ init0 = <<>>
  /\ tmpIno = 0
  /\ backups = {}
  /\ calls = <<>>
  /\ faults = 0
  /\ budget = MaxLiveCalls
  /\ OneInstance

NextLive ==
  \/ \E m \in Modes : setMode(m)
  \/ \E a \in ArgLists : CallAsync(a)
  \/ \E a \in ArgLists : CallSyncBypass(a, Add(a))
  \/ \E a \in ArgLists : \E o \in FnOutcomes \cup {Add(a)} : CallSyncRecord(a, o)
  \/ \E a \in ArgLists : CallSyncPlayback(a)
  \/ \E i \in 1..Len(calls) : LiveStep(i)

SpecLive ==
  /\ InitLive
  /\ [][NextLive]_vars
  /\ \A i \in 1..MaxLiveCalls : WF_vars(LiveStep(i))

(***************************************************************************)
(* Properties.                                                             *)
(***************************************************************************)
Call(i) == calls[i]
Ids == 1..Len(calls)
Hash(i) == generateHash(calls[i].args)

\* The mapping a reader of the storage file gets now.
FileMapping == IF fileIno = 0 THEN <<>> ELSE JsonParse(inodes[fileIno]).obj

\* Call p was issued when call r had run to its end.
IssuedAfter(p, r) == r \in calls[p].after /\ calls[r].pc = "done"

\* C1: once a Record call for an argument list has completed its persist, every
\* Playback call issued afterwards with the same arguments returns the value that
\* call recorded, whatever else is in flight.  (Stated where the wrapped function
\* is add, so that no call records another value for the same arguments.)
C1_RecordedValueReplayed ==
  \A r \in Ids, p \in Ids :
    ( /\ Call(r).arm = RECORD
      /\ Call(r).saved = "ok"
      /\ IssuedAfter(p, r)
      /\ Call(p).args = Call(r).args
      /\ Call(p).issued = PLAYBACK
      /\ Call(p).arm = PLAYBACK
      /\ Call(p).pc = "done" )
    => Call(p).ret = Val(Call(r).out.val)

\* C2: in Bypass mode every call invokes the original function exactly once and
\* yields exactly its outcome, on the sync and on the async path, whatever the
\* state of the storage file.
C2_BypassIsTransparent ==
  \A i \in Ids :
    ( /\ Call(i).issued = BYPASS
      /\ Call(i).arm \in {NoMode, BYPASS}
      /\ Call(i).pc = "done" )
    => (Call(i).invoked = 1 /\ Call(i).ret = Outcome(Call(i).out))

\* C3: a Bypass-mode call performs no storage interaction: it reads, renames and
\* writes no file and leaves the mapping and the loaded flag alone.
C3_BypassTouchesNoStorage ==
  \A i \in Ids :
    (Call(i).issued = BYPASS /\ Call(i).arm = BYPASS) => ~Call(i).touched

\* C4: in Playback mode no call invokes the original function, on the sync or the
\* async path, on a hit or on a miss: a call handled by the PLAYBACK arm has not
\* invoked it, and whatever call invoked it was handled by another arm.
C4_PlaybackNeverInvokes ==
  \A i \in Ids :
    /\ Call(i).arm = PLAYBACK => Call(i).invoked = 0
    /\ Call(i).invoked > 0 => Call(i).arm \in {BYPASS, RECORD}

C4_Witness ==
  \E i \in Ids, j \in Ids :
    /\ Call(i).kind = "sync" /\ Call(i).arm = PLAYBACK /\ Call(i).lk = "hit"
    /\ Call(j).kind = "async" /\ Call(j).arm = PLAYBACK /\ Call(j).lk = "miss"

\* The fingerprint has no value in memory nor in the storage file.
NoStoredValue(h) == ~Has(storage, h) /\ ~Has(FileMapping, h)

\* C5 as claimed: a Playback call whose fingerprint has no stored value always
\* fails with the not-found error, never with another one.
C5_MissAlwaysNotFound ==
  \A i \in Ids :
    ( /\ Call(i).issued = PLAYBACK
      /\ Call(i).arm \in {NoMode, PLAYBACK}
      /\ Call(i).pc = "done"
      /\ Call(i).lk # "hit"
      /\ NoStoredValue(Hash(i)) )
    => Call(i).ret = NotFound(Call(i).args)

\* C5 amended: a Playback call that reaches its lookup and finds no value for its
\* fingerprint fails with the not-found error carrying its argument list, also when
\* there is no storage file, and a value is returned on a hit only; a call whose
\* load fails before the lookup (async: a read error other than a missing file or a
\* parse failure; both paths: a failing backup rename) fails with that load error.
C5_LookupMissIsNotFound ==
  \A i \in Ids :
    /\ (Call(i).arm = PLAYBACK /\ Call(i).lk = "miss") => Call(i).ret = NotFound(Call(i).args)
    /\ (Call(i).arm = PLAYBACK /\ Call(i).ret.k = "val") => Call(i).lk = "hit"
    /\ (Call(i).arm = PLAYBACK /\ Call(i).pc = "done" /\ Call(i).lk = "none")
         => (Call(i).kind = "sync" /\ Call(i).ret = RenameError)
    /\ (Call(i).kind = "async" /\ Call(i).arm = NoMode /\ Call(i).pc = "done")
         => Call(i).ret \in {LoadIOError, RenameError}

C5_Witness ==
  \E i \in Ids, j \in Ids :
    /\ Call(i).kind = "sync" /\ Call(i).arm = PLAYBACK /\ Call(i).lk = "miss"
    /\ Call(i).ret = NotFound(Call(i).args)
    /\ Call(j).kind = "async" /\ Call(j).arm = PLAYBACK /\ Call(j).lk = "miss"
    /\ Call(j).ret = NotFound(Call(j).args)
    /\ Call(i).args # Call(j).args
    /\ init0 = <<>> /\ fileIno = 0

\* Some call set the entry of fingerprint h, or the file held one at construction.
EverSet(h) ==
  \/ Has(JsonParse(init0).obj, h)
  \/ \E j \in Ids : Call(j).didSet /\ Hash(j) = h /\ Call(j).out.ok

Unencodable(r) ==
  Call(r).arm = RECORD /\ Call(r).out = Returns(Circular) /\ Call(r).pc = "done"

\* C7 as claimed: after a Record call with an unencodable result, a later Playback
\* call with the same arguments fails with the not-found error.
C7_UnencodableThenNotFound ==
  \A r \in Ids, p \in Ids :
    ( /\ Unencodable(r)
      /\ IssuedAfter(p, r)
      /\ Call(p).args = Call(r).args
      /\ Call(p).issued = PLAYBACK
      /\ Call(p).arm = PLAYBACK
      /\ Call(p).pc = "done"
      /\ faults = 0 )
    => Call(p).ret = NotFound(Call(p).args)

\* C7 amended: the caller receives the original's result unchanged and the call
\* sets no entry and starts no persist; a later Playback call with the same
\* arguments that reaches its lookup fails with the not-found error unless the
\* mapping holds an entry for that fingerprint from elsewhere (found in the file at
\* construction, or set by another call), which it then returns.
C7_UnencodableSkipsStore ==
  /\ \A r \in Ids :
       (Call(r).arm = RECORD /\ Call(r).out = Returns(Circular))
       => /\ ~Call(r).didSet
          /\ Call(r).saved = "no"
          /\ Call(r).pc \notin {"wrOpen", "wrData", "ren"}
          /\ Call(r).kind = "sync" => Call(r).ret = Val(Circular)
          /\ (Call(r).pc = "done" /\ Call(r).kind = "async") => Call(r).ret = Val(Circular)
  /\ \A r \in Ids, p \in Ids :
       ( /\ Unencodable(r)
         /\ IssuedAfter(p, r)
         /\ Call(p).args = Call(r).args
         /\ Call(p).arm = PLAYBACK
         /\ Call(p).lk # "none" )
       => \/ Call(p).ret = NotFound(Call(p).args)
          \/ /\ Call(p).ret.k = "val"
             /\ Call(p).ret.x # Circular
             /\ EverSet(Hash(p))

C7_Witness ==
  \E r \in Ids, p \in Ids :
    /\ Unencodable(r)
    /\ Call(r).kind = "async"
    /\ Call(r).ret = Val(Circular)
    /\ IssuedAfter(p, r)
    /\ Call(p).args = Call(r).args
    /\ Call(p).ret = NotFound(Call(p).args)

\* C8: a failure of the temp write or of the rename is never propagated: a Record
\* call whose original function succeeded returns that function's result whether
\* the persist succeeded, failed or was skipped, on the sync and the async path.
C8_PersistFailureNotPropagated ==
  \A i \in Ids :
    (Call(i).arm = RECORD /\ Call(i).out.ok)
    => /\ Call(i).kind = "sync" => Call(i).ret = Val(Call(i).out.val)
       /\ Call(i).pc = "done" => Call(i).ret = Val(Call(i).out.val)
       /\ Call(i).saved = "failed" => Call(i).pc = "done"

C8_Witness ==
  \E i \in Ids, j \in Ids :
    /\ Call(i).kind = "async" /\ Call(i).arm = RECORD /\ Call(i).saved = "failed"
    /\ Call(i).ret = Val(Num(5))
    /\ Call(j).kind = "sync" /\ Call(j).arm = RECORD /\ Call(j).saved = "ok"
    /\ Call(j).ret = Val(Num(5))

\* C9: the file at the storage path is absent, or as found at construction, or a
\* complete serialization of a mapping; it is never seen partially written.
C9_FileNeverPartial ==
  (fileIno # 0 /\ faults = 0) => (inodes[fileIno] = init0 \/ WellFormed(inodes[fileIno]))

\* C10: when Record calls with pairwise different argument lists were issued
\* concurrently and all have completed, with nothing failing, the mapping and the
\* storage file hold an entry for every one of them.
C10_NoRecordingLost ==
  ( /\ Len(calls) >= 2
    /\ faults = 0
    /\ \A i \in Ids :
         /\ Call(i).kind = "async"
         /\ Call(i).issued = RECORD
         /\ Call(i).arm = RECORD
         /\ Call(i).out.ok
         /\ Call(i).after = {}
         /\ Call(i).pc = "done"
    /\ \A i \in Ids, j \in Ids : i # j => Call(i).args # Call(j).args )
  => \A i \in Ids : Has(storage, Hash(i)) /\ Has(FileMapping, Hash(i))

\* The calls that read the storage file (readFile or readFileSync returned or threw).
Readers == {i \in Ids : Call(i).saw # "none"}

\* C11: per instance the storage file is read at most once, in any mode, on the sync
\* or the async path, also when several calls were issued before the first load
\* finished.
C11_FileReadAtMostOnce == Cardinality(Readers) <= 1

\* C12: a call that loads a storage file that does not parse (nothing else failing)
\* leaves the file renamed to a backup and the instance loaded, and when it is a
\* Playback call it fails with the not-found error.
C12_CorruptFileBackedUp ==
  \A i \in Ids :
    (Call(i).saw = "backup" /\ Call(i).pc \notin {"rdDone", "bkPending"} /\ faults = 0)
    => /\ initialized
       /\ backups # {}
       /\ (Call(i).issued = PLAYBACK /\ mode = PLAYBACK /\ Call(i).pc = "done")
            => Call(i).ret = NotFound(Call(i).args)

\* C13: with a corrupt storage file (nothing else failing) and all calls issued and
\* handled in Bypass or Record mode, every call yields exactly the original
\* function's outcome, also when several calls trigger the load concurrently.
C13_CorruptionNeverSurfaced ==
  ( /\ init0 = <<Junk>>
    /\ faults = 0
    /\ \A j \in Ids : Call(j).issued \in {BYPASS, RECORD}
                       /\ Call(j).arm \in {NoMode, BYPASS, RECORD} )
  => \A i \in Ids :
       Call(i).pc = "done" => (Call(i).ret = Outcome(Call(i).out) /\ Call(i).invoked = 1)

\* C14: a Playback call whose read of the storage file failed for a reason other than
\* a missing file or a parse failure fails with that load error, on both paths.
C14_ReadErrorFailsPlayback ==
  \A i \in Ids :
    ( /\ Call(i).saw = "other"
      /\ Call(i).issued = PLAYBACK
      /\ Call(i).arm \in {NoMode, PLAYBACK}
      /\ Call(i).pc = "done" )
    => Call(i).ret = LoadIOError

\* C16: the mode governing a call is the mode the instance had when the wrapped
\* function was called: the arm that handles the call is the arm of that mode.
C16_ModeAtCallTimeGoverns ==
  \A i \in Ids : Call(i).arm # NoMode => Call(i).arm = Call(i).issued

\* Call p was issued when every Record-mode call had run to its end.
AfterAllRecords(p) ==
  \A r \in Ids :
    (Call(r).issued = RECORD \/ Call(r).arm = RECORD) => (r # p /\ IssuedAfter(p, r))

\* C17: two Playback calls with identical arguments, the second issued after the
\* first returned, with no Record call in flight or in between and the storage file
\* left alone, yield the same outcome, whichever wrapper each goes through.
C17_PlaybackIdempotent ==
  \A p \in Ids, q \in Ids :
    ( /\ Call(p).issued = PLAYBACK /\ Call(p).arm = PLAYBACK /\ Call(p).pc = "done"
      /\ Call(q).issued = PLAYBACK /\ Call(q).arm = PLAYBACK /\ Call(q).pc = "done"
      /\ Call(p).args = Call(q).args
      /\ AfterAllRecords(p)
      /\ IssuedAfter(q, p) )
    => Call(q).ret = Call(p).ret

\* Deep equality of two arguments: the same kind and the same properties, for an
\* object whatever the order they were inserted in.
EqualByValue(a, b) ==
  /\ a.t = b.t
  /\ Len(a.v) = Len(b.v)
  /\ IF a.t = "object"
       THEN {a.v[i] : i \in 1..Len(a.v)} = {b.v[i] : i \in 1..Len(b.v)}
       ELSE a.v = b.v

EqualArgs(x, y) ==
  Len(x) = Len(y) /\ \A i \in 1..Len(x) : EqualByValue(x[i], y[i])

\* The same kind and the same properties in the same order.
SameOrderArgs(x, y) ==
  Len(x) = Len(y) /\ \A i \in 1..Len(x) : x[i].t = y[i].t /\ x[i].v = y[i].v

\* r recorded and persisted, then p was played back, and no other call was made.
RecordedThenPlayed(r, p) ==
  /\ Ids = {r, p}
  /\ Call(r).arm = RECORD
  /\ Call(r).saved = "ok"
  /\ IssuedAfter(p, r)
  /\ Call(p).issued = PLAYBACK
  /\ Call(p).arm = PLAYBACK
  /\ Call(p).pc = "done"

\* C18 as claimed: a value recorded for one call is returned by Playback for a later
\* call with equal-by-value arguments.
C18_EqualArgsReplay ==
  \A r \in Ids, p \in Ids :
    (RecordedThenPlayed(r, p) /\ EqualArgs(Call(r).args, Call(p).args))
    => Call(p).ret = Val(Call(r).out.val)

\* C18 amended: argument lists with the same canonical encoding (equal by value with
\* object keys in the same insertion order: new but equal objects, equal arrays, an
\* omitted argument) get the same fingerprint, and a value recorded for one call is
\* returned by a Playback call that follows it with such arguments.
C18_SameEncodingReplay ==
  /\ \A i \in Ids, j \in Ids :
       SameOrderArgs(Call(i).args, Call(j).args) => Hash(i) = Hash(j)
  /\ \A r \in Ids, p \in Ids :
       (RecordedThenPlayed(r, p) /\ SameOrderArgs(Call(r).args, Call(p).args))
       => Call(p).ret = Val(Call(r).out.val)

C18_Witness ==
  \E r \in Ids, p \in Ids :
    /\ RecordedThenPlayed(r, p)
    /\ Call(r).args = <<Obj(1, XY)>>
    /\ Call(p).args = <<Obj(2, XY)>>
    /\ Call(p).ret = Val(Num(3))

\* C19: a value recorded in Record mode and persisted comes back from a later
\* Playback call as a value of the same kind with the same content.
C19_RoundTrip ==
  \A r \in Ids, p \in Ids :
    RecordedThenPlayed(r, p) => Call(p).ret = Val(Call(r).out.val)

\* C20: encoding a self-referencing object succeeds with the marker at the cyclic
\* edge: a Record call that returned such an object, nothing failing, has stored it,
\* and the JSON text written for it holds the marker.
C20_CircularEncodes ==
  \A r \in Ids :
    (Unencodable(r) /\ faults = 0)
    => /\ Call(r).didSet
       /\ JsonNode(Call(r).out.val).t = "str:[Circular Reference]"

\* Nothing of instance b shows a trace of the other one: its storage file is what
\* its own renames made of it, its mapping and its file hold entries for its own
\* arguments only, and its calls return its own results.
Untouched(b) ==
  /\ FileAt(paths[b]) = boxes[b].own
  /\ Keys(boxes[b].storage) \subseteq {generateHash(BoxArgs(b))}
  /\ boxes[b].own.present
       => /\ WellFormed(boxes[b].own.text)
          /\ Keys(JsonParse(boxes[b].own.text).obj) = {generateHash(BoxArgs(b))}
  /\ boxes[b].last = "record" => boxes[b].ret = Outcome(Add(BoxArgs(b)))
  /\ (boxes[b].last = "playback" /\ boxes[b].saved) => boxes[b].ret = Outcome(Add(BoxArgs(b)))
  /\ (boxes[b].last = "playback" /\ ~boxes[b].saved) => boxes[b].ret = NotFound(BoxArgs(b))

\* C15 as claimed: two instances constructed with different storage paths are
\* independent.
C15_InstancesIndependent == \A b \in Boxes : Untouched(b)

\* Neither storage path is the temp path of the other instance.
NoSiblingPaths ==
  \A b \in Boxes : paths[b] # TempFile(paths[OtherBox(b)])

\* C15 amended: two instances constructed with different storage paths, neither of
\* which is the temp path (storage path plus ".tmp") of the other, are independent:
\* after both record different argument lists concurrently each file holds only
\* its own instance's entry and each plays back its own value.
C15_IndependentUnlessSibling ==
  (paths # <<>> /\ NoSiblingPaths) => \A b \in Boxes : Untouched(b)

C15_Witness ==
  /\ paths = <<<<"storage1">>, <<"storage2">>>>
  /\ \E b \in Boxes : boxes[b].conc
  /\ \A b \in Boxes :
       /\ boxes[b].saved
       /\ FileAt(paths[b]).present
       /\ boxes[b].last = "playback"
       /\ boxes[b].ret = Outcome(Add(BoxArgs(b)))

\* The entries of a mapping, whatever their order.
Entries(st) == {st[i] : i \in 1..Len(st)}

\* A persist of the instance is running: between the store that started it and the
\* return of saveStorage.
PersistInFlight == \E i \in Ids : Call(i).pc \in {"wrOpen", "wrData", "ren"}

\* C21: whenever the instance is loaded and none of its persists is in flight (and
\* no file operation has failed), the in-memory mapping and the mapping in the
\* storage file have the same fingerprints and values.
C21_MemoryMatchesFile ==
  (initialized /\ ~PersistInFlight /\ faults = 0) => Entries(storage) = Entries(FileMapping)

\* C22: no operation of the instance removes an entry: what a Record call has set
\* in memory stays there (the wrapped function being add, with the value it set).
C22_EntriesNeverRemoved ==
  \A r \in Ids :
    Call(r).didSet => (Has(storage, Hash(r)) /\ Get(storage, Hash(r)) = Call(r).out.val)

\* C23: the temp file exists only while a persist is running: when no persist is in
\* flight, whether the finished ones succeeded or failed, there is no file at the
\* temp path.
C23_NoTempLeftBehind == ~PersistInFlight => tmpIno = 0

\* Every call was issued when all the calls before it had run to their end.
Sequential == \A j \in Ids : Call(j).after = 1..(j - 1)

\* The Record calls made before p with the arguments of p, through any function.
RecordsBefore(p) ==
  {r \in 1..(p - 1) : Call(r).arm = RECORD /\ Call(r).didSet /\ Call(r).args = Call(p).args}

\* The last of a non-empty set of calls.
Latest(S) == CHOOSE r \in S : \A q \in S : q <= r

\* C24: the store key depends only on the argument list, not on the function that
\* was wrapped.  Memory and file hold one entry per fingerprint; a Playback hit
\* returns a value that a Record call with the same arguments set, through whichever
\* function and wrapper; and in a session whose calls follow one another, a Playback
\* call returns what the latest Record call with its arguments stored, that call
\* having overwritten what earlier ones, through the same or another function, had
\* stored.
C24_KeyIsArgumentsOnly ==
  /\ Cardinality(Keys(storage)) = Len(storage)
  /\ Cardinality(Keys(FileMapping)) = Len(FileMapping)
  /\ \A p \in Ids :
       (Call(p).arm = PLAYBACK /\ Call(p).pc = "done" /\ Call(p).ret.k = "val")
       => \E r \in Ids : /\ Call(r).didSet
                         /\ Call(r).args = Call(p).args
                         /\ Call(p).ret = Val(Call(r).out.val)
  /\ \A p \in Ids :
       (Sequential /\ Call(p).arm = PLAYBACK /\ Call(p).pc = "done" /\ RecordsBefore(p) # {})
       => Call(p).ret = Val(Call(Latest(RecordsBefore(p))).out.val)

\* add(2, 3) recorded through the sync wrapper (5), then mul(2, 3) through the async
\* wrapper (6), then the sync-wrapped function played back: 6.
C24_Witness ==
  /\ Sequential
  /\ Len(calls) = 3
  /\ Call(1).kind = "sync" /\ Call(1).arm = RECORD /\ Call(1).out = Returns(Num(5))
  /\ Call(2).kind = "async" /\ Call(2).arm = RECORD /\ Call(2).out = Returns(Num(6))
  /\ Call(3).kind = "sync" /\ Call(3).arm = PLAYBACK /\ Call(3).pc = "done"
  /\ Call(1).args = ReplayArgs /\ Call(2).args = ReplayArgs /\ Call(3).args = ReplayArgs
  /\ Call(3).ret = Val(Num(6))
  /\ Len(storage) = 1

\* Call i is a Record-mode call of a sync-wrapped function that returned a result
\* the codec encodes.
SyncRecorded(i) ==
  IF i \in Ids
    THEN /\ Call(i).kind = "sync"
         /\ Call(i).arm = RECORD
         /\ Call(i).out.ok
         /\ trySerialize(Call(i).out.val)
    ELSE FALSE

\* Call i has returned such a result and its deferred step has yet to store it.
StorePending(i) ==
  IF SyncRecorded(i) THEN ~Call(i).didSet ELSE FALSE

\* The result of call i has been set in memory by the call and the storage file holds
\* it under the call's fingerprint.
SetAndPersisted(i) ==
  IF i \in Ids /\ Has(FileMapping, generateHash(Call(i).args))
    THEN Call(i).didSet /\ Get(FileMapping, Hash(i)) = Call(i).out.val
    ELSE FALSE

\* A persist has reported a failure.
SomePersistFailed == \E j \in Ids : Call(j).saved = "failed"

\* C25: a mode change does not cancel a deferred store.  Whatever the mode is
\* switched to afterwards and whatever calls are made in the new mode, the result of
\* a Record-mode call of a sync-wrapped function that returned an encodable result
\* is eventually set in memory and present in the storage file under the call's
\* fingerprint, unless a storage operation fails.
C25_DeferredStoreSurvivesModeChange ==
  \A i \in 1..MaxLiveCalls : StorePending(i) ~> (SetAndPersisted(i) \/ SomePersistFailed)

\* The sync-wrapped add(2, 3) was called in RECORD mode; the mode was switched to
\* PLAYBACK and a sync Playback call replaced memory by the then missing file's
\* empty mapping; memory holds the entry nevertheless, so the deferred store ran
\* after the switch, and the file holds it too.
C25_Witness ==
  /\ Len(calls) = 2
  /\ SyncRecorded(1)
  /\ Call(2).kind = "sync" /\ Call(2).arm = PLAYBACK /\ Call(2).saw = "empty"
  /\ mode = PLAYBACK
  /\ Has(storage, Hash(1))
  /\ SetAndPersisted(1)
  /\ ~SomePersistFailed

====
